---- MODULE Spec2Model ----
(***************************************************************************)
(* UdpServer (src/src/main.cpp): a relay between a UDP socket and two ROS  *)
(* topics.  Datagrams carrying a JSON envelope are parsed by               *)
(* handleReceive and, when they match the route, published on /chatter;    *)
(* messages heard on /listener are written as a JSON envelope by           *)
(* listenerCallback and sent to sender_endpoint_.                          *)
(*                                                                         *)
(* Byte strings are TLA+ strings; the JSON reader and writer are modelled  *)
(* character by character for the subset of JSON the sample datagrams use  *)
(* (objects, arrays, strings with the two-character escapes, integers,     *)
(* true/false/null, white space).                                          *)
(***************************************************************************)
EXTENDS Integers, Sequences, FiniteSets, TLC

(***************************************************************************)
(* Json::Value                                                             *)
(***************************************************************************)
JNull == [t |-> "null"]
JBool(b) == [t |-> "bool", b |-> b]
JInt(n) == [t |-> "int", n |-> n]
JStr(s) == [t |-> "string", s |-> s]
JArr(a) == [t |-> "array", a |-> a]
JObj(m) == [t |-> "object", m |-> m]

\* F applied to the value of e, which is evaluated once.
With(e, F(_)) == CHOOSE r \in { F(x) : x \in {e} } : TRUE

\* The outcome of a Json::Value call that can throw Json::LogicError.
Throws == [thrown |-> TRUE]
Returns(v) == [thrown |-> FALSE, v |-> v]

\* Value::isMember(key): only a null or an object value may be asked.
isMember(j, key) ==
    IF j.t = "null" THEN Returns(FALSE)
    ELSE IF j.t = "object" THEN Returns(key \in DOMAIN j.m)
    ELSE Throws

\* Value::operator[](key): a null value becomes an empty object, an absent
\* member reads as null; any other type of value throws.
member(j, key) ==
    IF j.t = "null" THEN Returns(JNull)
    ELSE IF j.t = "object"
         THEN Returns(IF key \in DOMAIN j.m THEN j.m[key] ELSE JNull)
    ELSE Throws

\* Value::asString(): null, booleans and numbers convert; arrays and
\* objects throw.
asString(j) ==
    IF j.t = "string" THEN Returns(j.s)
    ELSE IF j.t = "null" THEN Returns("")
    ELSE IF j.t = "bool" THEN Returns(IF j.b THEN "true" ELSE "false")
    ELSE IF j.t = "int" THEN Returns(ToString(j.n))
    ELSE Throws

(***************************************************************************)
(* Json::Reader::parse                                                     *)
(***************************************************************************)
Ch(s, i) == SubSeq(s, i, i)

Fail == [ok |-> FALSE]
Ok(v, i) == [ok |-> TRUE, v |-> v, i |-> i]

Digits == {"0", "1", "2", "3", "4", "5", "6", "7", "8", "9"}
DigitVal == [c \in Digits |->
               CHOOSE n \in 0..9 : ToString(n) = c]

\* A reader that takes the escape of a line feed for the letter n.
Unescape_LetterN ==
    ("\"" :> "\"") @@ ("\\" :> "\\") @@ ("/" :> "/") @@
    ("n" :> "n") @@ ("t" :> "\t") @@ ("r" :> "\r") @@ ("f" :> "\f")

\* The escapes Reader::decodeString accepts (of those the model writes).
Unescape ==
    ("\"" :> "\"") @@ ("\\" :> "\\") @@ ("/" :> "/") @@
    ("n" :> "\n") @@ ("t" :> "\t") @@ ("r" :> "\r") @@ ("f" :> "\f")

RECURSIVE skipSpaces(_, _)
skipSpaces(s, i) ==
    IF i <= Len(s) /\ Ch(s, i) \in {" ", "\t", "\n", "\r"}
    THEN skipSpaces(s, i + 1)
    ELSE i

\* Reader::readString and decodeString, from the character after the
\* opening quote: up to the closing quote, escapes decoded.  The characters
\* up to the next quote or backslash are taken in one piece.
RECURSIVE decodeString(_, _, _)
decodeString(s, i, acc) ==
    LET stops == { j \in i..Len(s) : Ch(s, j) \in {"\"", "\\"} }
    IN  IF stops = {} THEN Fail
        ELSE LET j     == CHOOSE k \in stops : \A l \in stops : k <= l
                 piece == acc \o SubSeq(s, i, j - 1)
             IN  IF Ch(s, j) = "\"" THEN Ok(piece, j + 1)
                 ELSE IF j + 1 <= Len(s) /\ Ch(s, j + 1) \in DOMAIN Unescape
                      THEN decodeString(s, j + 2,
                                        piece \o Unescape[Ch(s, j + 1)])
                      ELSE Fail

\* Reader::readNumber and decodeNumber for integers.
RECURSIVE decodeNumber(_, _, _, _)
decodeNumber(s, i, acc, any) ==
    IF i <= Len(s) /\ Ch(s, i) \in Digits
    THEN decodeNumber(s, i + 1, 10 * acc + DigitVal[Ch(s, i)], TRUE)
    ELSE IF any THEN Ok(acc, i) ELSE Fail

\* Reader::match: the word w stands at position i.
match(s, i, w) ==
    i + Len(w) - 1 <= Len(s) /\ SubSeq(s, i, i + Len(w) - 1) = w

RECURSIVE readValue(_, _)
RECURSIVE readObject(_, _, _, _)
RECURSIVE readArray(_, _, _)

\* Reader::readValue: one value starting at the first token at or after i.
readValue(s, i0) ==
    LET i == skipSpaces(s, i0)
        c == Ch(s, i)
    IN  IF i > Len(s) THEN Fail
        ELSE IF c = "{" THEN readObject(s, i + 1, <<>>, TRUE)
        ELSE IF c = "[" THEN
            IF skipSpaces(s, i + 1) <= Len(s)
               /\ Ch(s, skipSpaces(s, i + 1)) = "]"
            THEN Ok(JArr(<<>>), skipSpaces(s, i + 1) + 1)
            ELSE readArray(s, i + 1, <<>>)
        ELSE IF c = "\"" THEN
            LET r == decodeString(s, i + 1, "")
            IN  IF r.ok THEN Ok(JStr(r.v), r.i) ELSE Fail
        ELSE IF c \in Digits THEN
            LET r == decodeNumber(s, i, 0, FALSE)
            IN  Ok(JInt(r.v), r.i)
        ELSE IF c = "-" THEN
            LET r == decodeNumber(s, i + 1, 0, FALSE)
            IN  IF r.ok THEN Ok(JInt(0 - r.v), r.i) ELSE Fail
        ELSE IF match(s, i, "true") THEN Ok(JBool(TRUE), i + 4)
        ELSE IF match(s, i, "false") THEN Ok(JBool(FALSE), i + 5)
        ELSE IF match(s, i, "null") THEN Ok(JNull, i + 4)
        ELSE Fail

\* Reader::readObject, after the opening brace: m holds the members read so
\* far (a repeated name overwrites), first is TRUE before the first member.
readObject(s, i0, m, first) ==
    LET i == skipSpaces(s, i0)
    IN  IF i > Len(s) THEN Fail
        ELSE IF Ch(s, i) = "}" /\ first THEN Ok(JObj(m), i + 1)
        ELSE IF Ch(s, i) # "\"" THEN Fail
        ELSE
          LET k == decodeString(s, i + 1, "")
          IN  IF ~k.ok THEN Fail
              ELSE
                LET c == skipSpaces(s, k.i)
                IN  IF c > Len(s) \/ Ch(s, c) # ":" THEN Fail
                    ELSE
                      LET v == readValue(s, c + 1)
                      IN  IF ~v.ok THEN Fail
                          ELSE
                            LET e  == skipSpaces(s, v.i)
                                m2 == (k.v :> v.v) @@ m
                            IN  IF e > Len(s) THEN Fail
                                ELSE IF Ch(s, e) = "}"
                                     THEN Ok(JObj(m2), e + 1)
                                ELSE IF Ch(s, e) = ","
                                     THEN readObject(s, e + 1, m2, FALSE)
                                ELSE Fail

\* Reader::readArray, after the opening bracket of a non-empty array.
readArray(s, i0, a) ==
    LET v == readValue(s, i0)
    IN  IF ~v.ok THEN Fail
        ELSE
          LET e == skipSpaces(s, v.i)
          IN  IF e > Len(s) THEN Fail
              ELSE IF Ch(s, e) = "]" THEN Ok(JArr(Append(a, v.v)), e + 1)
              ELSE IF Ch(s, e) = "," THEN readArray(s, e + 1, Append(a, v.v))
              ELSE Fail

\* Reader::parse(document, root): reads one value; what follows the value in
\* the document is not examined.
parse(s) ==
    LET r == readValue(s, 1)
    IN  IF r.ok THEN [ok |-> TRUE, v |-> r.v] ELSE [ok |-> FALSE]

(***************************************************************************)
(* Json::FastWriter::write                                                 *)
(***************************************************************************)
\* The characters valueToQuotedString writes as a two-character escape (of
\* those a TLA+ string can hold).
Escape ==
    ("\"" :> "\\\"") @@ ("\\" :> "\\\\") @@
    ("\n" :> "\\n") @@ ("\t" :> "\\t") @@ ("\r" :> "\\r") @@ ("\f" :> "\\f")

RECURSIVE escapeFrom(_, _)
escapeFrom(s, i) ==
    IF i > Len(s) THEN ""
    ELSE (IF Ch(s, i) \in DOMAIN Escape THEN Escape[Ch(s, i)] ELSE Ch(s, i))
         \o escapeFrom(s, i + 1)

\* A writer that quotes a string without escaping it.
valueToQuotedString_Raw(s) == "\"" \o s \o "\""

\* valueToQuotedString
valueToQuotedString(s) == "\"" \o escapeFrom(s, 1) \o "\""

\* The names the program stores in a Json::Value, in the order of the
\* value's std::map (the order FastWriter writes members in).
MemberOrder == <<"data", "msg", "op", "topic", "type">>

RECURSIVE writeValue(_)
RECURSIVE writeMembers(_, _, _)

\* FastWriter::writeValue
writeValue(j) ==
    IF j.t = "string" THEN valueToQuotedString(j.s)
    ELSE IF j.t = "null" THEN "null"
    ELSE IF j.t = "bool" THEN (IF j.b THEN "true" ELSE "false")
    ELSE IF j.t = "int" THEN ToString(j.n)
    ELSE IF j.t = "object" THEN "{" \o writeMembers(j.m, 1, TRUE) \o "}"
    ELSE "[]"

\* The members of an object from position i of MemberOrder on, separated
\* by commas.
writeMembers(m, i, first) ==
    IF i > Len(MemberOrder) THEN ""
    ELSE IF MemberOrder[i] \in DOMAIN m
         THEN (IF first THEN "" ELSE ",")
              \o valueToQuotedString(MemberOrder[i]) \o ":"
              \o writeValue(m[MemberOrder[i]])
              \o writeMembers(m, i + 1, FALSE)
         ELSE writeMembers(m, i + 1, first)

\* FastWriter::write: the document and a line feed.
write(j) == writeValue(j) \o "\n"

(***************************************************************************)
(* The environment: peers, datagrams, bus messages                         *)
(***************************************************************************)
\* Two remote peers.
PeerA == "10.0.0.1:5000"
PeerB == "10.0.0.2:6000"

\* A default-constructed udp::endpoint: 0.0.0.0, port 0.
DefaultEndpoint == "0.0.0.0:0"

\* nh.param<std::string>("ip", ip, "127.0.0.1"); nh.param<int>("port", port, 9090)
ip == "127.0.0.1"
port == 9090

\* Another address of the host the bridge runs on.
OtherAddress == "192.168.0.2"

\* udp::v4() as the address of an endpoint: every local address.
AnyAddress == "0.0.0.0"

\* udp::endpoint(udp::v4(), port), the local endpoint socket_ is bound to.
bound == [address |-> AnyAddress, port |-> port]

\* The kernel hands a datagram to a socket bound to local when the
\* datagram's destination is local's port at local's address, or at any
\* address when local's address is udp::v4().
delivers(local, to) ==
    /\ local.port = to.port
    /\ local.address = AnyAddress \/ local.address = to.address

Envelope(op, topic, msg, type) ==
    "{\"op\":" \o op \o ",\"topic\":" \o topic \o ",\"msg\":" \o msg
    \o ",\"type\":" \o type \o "}"

Hello == Envelope("\"publish\"", "\"/chatter\"", "{\"data\":\"hello\"}",
                  "\"std_msgs/String\"")
OtherTopic == Envelope("\"publish\"", "\"/other\"", "{\"data\":\"x\"}",
                       "\"std_msgs/String\"")
ZeroBytes == ""
NotJson == "not json"
ArrayRoot == "[1]"

\* enum { max_length = 1024 }
max_length == 1024

\* n letters.
RECURSIVE Letters(_)
Letters(n) ==
    IF n = 0 THEN ""
    ELSE IF n % 2 = 0 THEN LET half == Letters(n \div 2) IN half \o half
    ELSE "x" \o Letters(n - 1)

\* A route-matching envelope whose msg.data alone is max_length bytes long.
Long == Envelope("\"publish\"", "\"/chatter\"",
                 "{\"data\":\"" \o Letters(max_length) \o "\"}",
                 "\"std_msgs/String\"")

\* The datagrams the peers send in Spec and MainSpec.
Datagrams ==
    { [from |-> PeerA, to |-> [address |-> ip, port |-> port],
       bytes |-> Hello],
      [from |-> PeerB, to |-> [address |-> OtherAddress, port |-> port],
       bytes |-> OtherTopic],
      [from |-> PeerB, to |-> [address |-> ip, port |-> port],
       bytes |-> ZeroBytes],
      [from |-> PeerA, to |-> [address |-> ip, port |-> port],
       bytes |-> NotJson] }

\* The envelope shapes the receive path is fed in RecvSpec.
Shapes ==
    { Hello, OtherTopic, ZeroBytes, NotJson, ArrayRoot, Long,
      Envelope("\"delete\"", "\"/chatter\"", "{\"data\":\"x\"}",
               "\"std_msgs/String\""),
      Envelope("\"publish\"", "\"/chatter\"", "{\"data\":\"x\"}",
               "\"std_msgs/Int32\""),
      Envelope("\"publish\"", "\"/chatter\"", "{\"data\":\"a\\\"b\\\\c\\n\"}",
               "\"std_msgs/String\""),
      Envelope("\"publish\"", "\"/chatter\"", "{\"data\":\"\"}",
               "\"std_msgs/String\""),
      Envelope("\"publish\"", "\"/chatter\"", "{}", "\"std_msgs/String\""),
      Envelope("\"publish\"", "\"/chatter\"", "{\"data\":42}",
               "\"std_msgs/String\""),
      Envelope("\"publish\"", "\"/chatter\"", "{\"data\":[\"x\"]}",
               "\"std_msgs/String\""),
      Envelope("\"publish\"", "\"/chatter\"", "\"x\"", "\"std_msgs/String\""),
      Envelope("\"publish\"", "\"/chatter\"", "null", "\"std_msgs/String\""),
      Envelope("{}", "\"/chatter\"", "{\"data\":\"x\"}",
               "\"std_msgs/String\""),
      Envelope("null", "\"/chatter\"", "{\"data\":\"x\"}",
               "\"std_msgs/String\""),
      Envelope("\"publish\"", "7", "{\"data\":\"x\"}", "\"std_msgs/String\""),
      Envelope("\"publish\"", "\"/chatter\"", "{\"data\":\"x\"}", "[]"),
      "{\"topic\":\"/chatter\",\"msg\":{\"data\":\"x\"},\"type\":\"std_msgs/String\"}",
      "{\"op\":\"publish\",\"topic\":\"/chatter\",\"type\":\"std_msgs/String\"}",
      "{\"op\":\"publish\",\"msg\":{\"data\":\"x\"},\"type\":\"std_msgs/String\"}",
      "{\"op\":\"publish\",\"topic\":\"/chatter\",\"msg\":{\"data\":\"x\"}}",
      " " \o Hello \o "}",
      "{\"op\":\"publish\"", "42", "\"hello\"", "null", "{}" }

ShapeDatagrams ==
    { [from |-> PeerA, to |-> [address |-> ip, port |-> port], bytes |-> b] :
        b \in Shapes }

\* The strings the bus delivers on /listener.
BusStrings == { "world", "a\"b\\c\n" }

(***************************************************************************)
(* Bounds                                                                  *)
(***************************************************************************)
\* Datagrams the socket's receive buffer holds before the kernel drops.
MaxQueue == 1
\* Send operations that are started and whose handler has not yet run.
MaxSendOps == 1
\* The length of the strings the writer and the reader are applied to.
MaxLen == 2

\* The characters of those strings: a letter, the characters the writer
\* escapes, and a slash.
Alphabet == { "a", "\"", "\\", "\n", "\t", "\r", "\f", "/" }

RECURSIVE StringsOfLen(_)
StringsOfLen(n) ==
    IF n = 0 THEN { "" }
    ELSE { s \o c : s \in StringsOfLen(n - 1), c \in Alphabet }

CodecStrings == UNION { StringsOfLen(n) : n \in 0..MaxLen }

(***************************************************************************)
(* State                                                                   *)
(***************************************************************************)
VARIABLES
    run,               \* "running", "crashed" (an exception left a handler)
                       \* or "destroyed" (~UdpServer has run)
    rxQueue,           \* datagrams that arrived at socket_, not yet received
    lastArrival,       \* source of the latest datagram that arrived at socket_
    received,          \* a receive has completed with a datagram
    recvPending,       \* receive operations outstanding on socket_
    data_,             \* the first bytes_recvd characters of data_
    sender_endpoint_,
    published,         \* what the latest handleReceive published on /chatter
    sendOps,           \* send operations whose handler has not yet run
    heard,             \* flips at each message delivered on /listener
    log,               \* the latest ROS_INFO or ROS_ERROR line
    recvError,         \* the error_code the latest receive completed with
    steps,             \* what the latest handleReceive did, in order, with
                       \* the receives outstanding on socket_ at each step
    codec              \* the writer and the reader applied to one string

vars == <<run, rxQueue, lastArrival, received, recvPending, data_, sender_endpoint_,
          published, sendOps, heard, log, recvError, steps, codec>>

\* What a dangling send buffer of n bytes may hold when the kernel reads
\* it: something else of the same size.
RECURSIVE Garbage(_)
Garbage(n) == IF n = 0 THEN "" ELSE "?" \o Garbage(n - 1)

\* boost::system::error_code values of a receive.
Success == "Success"
OperationAborted == "Operation canceled"
\* Errors a receive on the open, bound socket can complete with; the socket
\* can receive again after each.
RecoverableErrors == { "Connection refused", "No buffer space available" }

\* The codec is not in use.
NoCodec == [stage |-> "off"]

\* A receivePacket that issues two receives.
receivePacket_Twice(pending) == pending + 2

\* void receivePacket(): one more receive is outstanding on socket_.
receivePacket(pending) == pending + 1

\* A constructor that presets sender_endpoint_ to a peer.
Init_PeerPreset ==
    /\ run = "running"
    /\ rxQueue = <<>>
    /\ lastArrival = "none"
    /\ received = FALSE
    /\ recvPending = receivePacket(0)
    /\ data_ = ""
    /\ sender_endpoint_ = PeerA
    /\ published = <<>>
    /\ sendOps = <<>>
    /\ heard = FALSE
    /\ log = "none"
    /\ recvError = Success
    /\ steps = <<>>
    /\ codec = NoCodec

\* UdpServer::UdpServer: the socket is bound, the first receive is
\* outstanding, sender_endpoint_ is default-constructed.
Init ==
    /\ run = "running"
    /\ rxQueue = <<>>
    /\ lastArrival = "none"
    /\ received = FALSE
    /\ recvPending = receivePacket(0)
    /\ data_ = ""
    /\ sender_endpoint_ = DefaultEndpoint
    /\ published = <<>>
    /\ sendOps = <<>>
    /\ heard = FALSE
    /\ log = "none"
    /\ recvError = Success
    /\ steps = <<>>
    /\ codec = NoCodec

(***************************************************************************)
(* The receive path                                                        *)
(***************************************************************************)
\* A peer's datagram arrives at the bound socket; the kernel drops it when
\* the socket's buffer is full.
DatagramArrives(U) ==
    /\ run = "running"
    /\ Len(rxQueue) < MaxQueue
    /\ \E d \in U :
         /\ delivers(bound, d.to)
         /\ rxQueue' = Append(rxQueue, d)
         /\ lastArrival' = d.from
    /\ UNCHANGED <<run, received, recvPending, data_, sender_endpoint_,
                   published, sendOps, heard, log, recvError, steps, codec>>

\* json.isMember("op") && json.isMember("topic") && json.isMember("msg")
\* && json.isMember("type")
hasMembers(json) ==
    IF isMember(json, "op").thrown THEN Throws
    ELSE Returns(/\ isMember(json, "op").v
                 /\ isMember(json, "topic").v
                 /\ isMember(json, "msg").v
                 /\ isMember(json, "type").v)

\* The route check without its test of op.
routeMatches_AnyOp(op, topic, type) ==
    topic = "/chatter" /\ type = "std_msgs/String"

\* op == "publish" && topic == "/chatter" && type == "std_msgs/String"
routeMatches(op, topic, type) ==
    op = "publish" /\ topic = "/chatter" /\ type = "std_msgs/String"

\* json["msg"]["data"].asString()
msgData(json) ==
    LET msg == member(json, "msg")
    IN  IF msg.thrown THEN Throws
        ELSE LET data == member(msg.v, "data")
             IN  IF data.thrown THEN Throws ELSE asString(data.v)

\* The body of handleReceive for a parsed document: what it publishes, or
\* that an exception leaves it.
route(json) ==
    LET has   == hasMembers(json)
        op    == asString(member(json, "op").v)
        topic == asString(member(json, "topic").v)
        type  == asString(member(json, "type").v)
    IN  IF has.thrown
        THEN [thrown |-> TRUE, checked |-> FALSE, pubs |-> <<>>]
        ELSE IF ~has.v
             THEN [thrown |-> FALSE, checked |-> FALSE, pubs |-> <<>>]
        ELSE IF op.thrown \/ topic.thrown \/ type.thrown
             THEN [thrown |-> TRUE, checked |-> FALSE, pubs |-> <<>>]
        ELSE IF ~routeMatches(op.v, topic.v, type.v)
             THEN [thrown |-> FALSE, checked |-> TRUE, pubs |-> <<>>]
        ELSE IF msgData(json).thrown
             THEN [thrown |-> TRUE, checked |-> TRUE, pubs |-> <<>>]
        ELSE [thrown |-> FALSE, checked |-> TRUE, pubs |-> <<msgData(json).v>>]

\* if (!error && bytes_recvd > 0)
receivedOk(error, bytes_recvd) == ~error /\ bytes_recvd > 0

\* A handleReceive that calls receivePacket() before it reads data_.
handlerSteps_RearmFirst(checked, publishes, returns) ==
    (IF returns THEN <<"rearm">> ELSE <<>>)
    \o <<"decode">>
    \o (IF checked THEN <<"route">> ELSE <<>>)
    \o (IF publishes THEN <<"publish">> ELSE <<>>)

\* The statements of the first branch of handleReceive that are executed,
\* in program order: data_ is copied and parsed (decode), the route is
\* compared (route), pub_.publish is called (publish), receivePacket() is
\* called (rearm).
handlerSteps(checked, publishes, returns) ==
    <<"decode">>
    \o (IF checked THEN <<"route">> ELSE <<>>)
    \o (IF publishes THEN <<"publish">> ELSE <<>>)
    \o (IF returns THEN <<"rearm">> ELSE <<>>)

\* The steps of a handler with the number of receives outstanding on
\* socket_ when each is executed.
RECURSIVE runSteps(_, _)
runSteps(names, pending) ==
    IF names = <<>> THEN <<>>
    ELSE <<[step |-> Head(names), pending |-> pending]>>
         \o runSteps(Tail(names),
                     IF Head(names) = "rearm" THEN receivePacket(pending)
                     ELSE pending)

\* UdpServer::handleReceive(error, bytes_recvd) with buf in data_: what is
\* published, whether an exception leaves the handler, and whether
\* receivePacket() is reached.
handleReceive(error, bytes_recvd, buf) ==
    IF receivedOk(error, bytes_recvd)
    THEN LET data == SubSeq(buf, 1, bytes_recvd)
             handled(out) ==
                 [thrown |-> out.thrown, pubs |-> out.pubs,
                  rearm |-> ~out.thrown,
                  steps |-> handlerSteps(out.checked, out.pubs # <<>>,
                                         ~out.thrown),
                  log |-> IF out.pubs # <<>> THEN <<"I received">> ELSE <<>>]
             routed(r) ==
                 With(IF r.ok THEN route(r.v)
                      ELSE [thrown |-> FALSE, checked |-> FALSE,
                            pubs |-> <<>>],
                      handled)
         IN  With(parse(data), routed)
    ELSE [thrown |-> FALSE, pubs |-> <<>>, rearm |-> FALSE, steps |-> <<>>,
          log |-> <<"Error in receiving UDP packet">>]

\* The Json::Value listenerCallback builds from msg->data.
listenerJson(d) ==
    JObj([op    |-> JStr("publish"),
          topic |-> JStr("/listener"),
          msg   |-> JObj([data |-> JStr(d)]),
          type  |-> JStr("std_msgs/String")])

\* The envelopes listenerCallback writes for the sample strings, computed
\* once.
Written == [d \in BusStrings |-> write(listenerJson(d))]

\* What a receive into boost::asio::buffer(data_, max_length) copies of a
\* datagram: its first max_length bytes; bytes_recvd is their number.
recvfrom(bytes) ==
    SubSeq(bytes, 1, IF Len(bytes) < max_length THEN Len(bytes)
                     ELSE max_length)

\* What the reader makes of the sample byte strings, computed once.
Parsed ==
    [b \in Shapes \cup {recvfrom(b) : b \in Shapes}
             \cup {Written[d] : d \in BusStrings} |->
        parse(b)]

parseOf(b) == IF b \in DOMAIN Parsed THEN Parsed[b] ELSE parse(b)

\* What the handlers of the sample datagrams do, computed once.
Handled ==
    [b \in {recvfrom(s) : s \in Shapes} |->
        handleReceive(FALSE, Len(b), b)]

\* The outstanding receive completes with the datagram at the head of the
\* socket's buffer: its first max_length bytes are in data_, its source in
\* sender_endpoint_, and handleReceive runs.
ReceiveCompletes ==
    /\ run = "running"
    /\ recvPending > 0
    /\ rxQueue # <<>>
    /\ LET d   == Head(rxQueue)
           buf == recvfrom(d.bytes)
           h   == IF buf \in DOMAIN Handled THEN Handled[buf]
                  ELSE handleReceive(FALSE, Len(buf), buf)
       IN  /\ rxQueue' = Tail(rxQueue)
           /\ received' = TRUE
           /\ data_' = buf
           /\ sender_endpoint_' = d.from
           /\ published' = h.pubs
           /\ run' = IF h.thrown THEN "crashed" ELSE run
           /\ recvPending' = IF h.rearm THEN receivePacket(recvPending - 1)
                              ELSE recvPending - 1
           /\ log' = IF h.log # <<>> THEN h.log[1] ELSE log
           /\ recvError' = Success
           /\ steps' = runSteps(h.steps, recvPending - 1)
    /\ UNCHANGED <<lastArrival, sendOps, heard, codec>>

\* The outstanding receive completes with a socket error while the socket
\* is open: handleReceive logs it.
ReceiveFails ==
    /\ run = "running"
    /\ recvPending > 0
    /\ \E e \in RecoverableErrors : recvError' = e
    /\ LET h == handleReceive(TRUE, 0, data_)
       IN  /\ published' = h.pubs
           /\ recvPending' = IF h.rearm THEN receivePacket(recvPending - 1)
                              ELSE recvPending - 1
           /\ log' = IF h.log # <<>> THEN h.log[1] ELSE log
           /\ steps' = runSteps(h.steps, recvPending - 1)
    /\ UNCHANGED <<run, rxQueue, lastArrival, received, data_,
                   sender_endpoint_, sendOps, heard, codec>>

(***************************************************************************)
(* The send path                                                           *)
(***************************************************************************)
\* What the kernel does with a datagram for dest: port 0 is no destination.
transmits(dest) == dest # DefaultEndpoint

\* A send operation that the kernel has performed with the bytes it found in
\* the buffer.
performed(o, bytes) ==
    [o EXCEPT !.stage = "done",
              !.error = ~transmits(o.dest),
              !.sent  = IF transmits(o.dest) THEN <<bytes>> ELSE <<>>]

\* UdpServer::sendPacket(data): async_send_to copies the destination and
\* keeps a reference to data.  The send is tried at once; when the socket
\* cannot take it (now = FALSE) it is queued and performed later.
sendPacket(d, data, now) ==
    LET o == [dest |-> sender_endpoint_, for |-> d, buf |-> data,
              peerSeen |-> received,
              stage |-> "queued", error |-> FALSE, sent |-> <<>>]
    IN  sendOps' = Append(sendOps, IF now THEN performed(o, data) ELSE o)

\* UdpServer::listenerCallback(msg), msg->data = d.
listenerCallback(d, now) ==
    /\ run = "running"
    /\ Len(sendOps) < MaxSendOps
    /\ heard' = ~heard
    /\ log' = "I heard"
    /\ sendPacket(d, IF d \in DOMAIN Written THEN Written[d]
                      ELSE write(listenerJson(d)), now)
    /\ UNCHANGED <<run, rxQueue, lastArrival, received, recvPending, data_,
                   sender_endpoint_, published, recvError, steps, codec>>

BusDelivers == \E d \in BusStrings, now \in BOOLEAN : listenerCallback(d, now)

\* The reactor performs a queued send after listenerCallback has returned:
\* the std::string the buffer refers to is destroyed, and the kernel sends
\* whatever is in its place.
SendPerforms ==
    /\ run = "running"
    /\ \E i \in 1..Len(sendOps) :
         /\ sendOps[i].stage = "queued"
         /\ \E bytes \in {sendOps[i].buf, Garbage(Len(sendOps[i].buf))} :
              sendOps' = [sendOps EXCEPT ![i] = performed(@, bytes)]
    /\ UNCHANGED <<run, rxQueue, lastArrival, received, recvPending, data_,
                   sender_endpoint_, published, heard, log, recvError, steps,
                   codec>>

\* if (!error && bytes_sent > 0)
sentOk(error, bytes_sent) == ~error /\ bytes_sent > 0

\* A handleSend that forgets the peer once a send to it has completed.
handleSend_ForgetsPeer(i) ==
    /\ sendOps[i].stage = "done"
    /\ log' = IF sendOps[i].error THEN "Error in sending UDP packet"
              ELSE "Sent UDP packet"
    /\ sender_endpoint_' = DefaultEndpoint
    /\ sendOps' = [k \in 1..(Len(sendOps) - 1) |->
                     IF k < i THEN sendOps[k] ELSE sendOps[k + 1]]
    /\ UNCHANGED <<run, rxQueue, lastArrival, received, recvPending, data_,
                   published, heard, recvError, steps, codec>>

\* A handleSend that gives up the receive loop when a send fails.
handleSend_StopsOnError(i) ==
    /\ sendOps[i].stage = "done"
    /\ log' = IF sendOps[i].error THEN "Error in sending UDP packet"
              ELSE "Sent UDP packet"
    /\ recvPending' = IF sendOps[i].error THEN 0 ELSE recvPending
    /\ sendOps' = [k \in 1..(Len(sendOps) - 1) |->
                     IF k < i THEN sendOps[k] ELSE sendOps[k + 1]]
    /\ UNCHANGED <<run, rxQueue, lastArrival, received, data_,
                   sender_endpoint_, published, heard, recvError, steps, codec>>

\* UdpServer::handleSend(error, bytes_sent) for the i-th send operation: a
\* log line either way.
handleSend(i) ==
    /\ sendOps[i].stage = "done"
    /\ log' = IF sentOk(sendOps[i].error,
                        IF sendOps[i].sent = <<>> THEN 0
                        ELSE Len(sendOps[i].sent[1]))
              THEN "Sent UDP packet"
              ELSE "Error in sending UDP packet"
    /\ sendOps' = [k \in 1..(Len(sendOps) - 1) |->
                     IF k < i THEN sendOps[k] ELSE sendOps[k + 1]]
    /\ UNCHANGED <<run, rxQueue, lastArrival, received, recvPending, data_,
                   sender_endpoint_, published, heard, recvError, steps, codec>>

SendCompletes ==
    /\ run = "running"
    /\ \E i \in 1..Len(sendOps) : handleSend(i)

\* A destructor that leaves the socket open.
Destructor_NoClose ==
    /\ run = "running"
    /\ run' = "destroyed"
    /\ UNCHANGED <<rxQueue, lastArrival, received, recvPending, data_,
                   sender_endpoint_, published, sendOps, heard, log,
                   recvError, steps, codec>>

\* UdpServer::~UdpServer: socket_.close() completes the outstanding receive
\* with operation_aborted; then io_service_ is destroyed with the handlers
\* it still holds, none of which is called.
Destructor ==
    /\ run = "running"
    /\ run' = "destroyed"
    /\ rxQueue' = <<>>
    /\ recvPending' = 0
    /\ recvError' = IF recvPending > 0 THEN OperationAborted ELSE recvError
    /\ sendOps' = <<>>
    /\ UNCHANGED <<lastArrival, received, data_, sender_endpoint_, published,
                   heard, log, steps, codec>>

(***************************************************************************)
(* The writer and the reader on one string                                 *)
(***************************************************************************)
\* What handleReceive reads out of the bytes of a datagram: the document is
\* parsed, the four members are tested, op, topic, type and msg.data are
\* taken with asString().
decodeEnvelope(bytes) ==
    LET read(r) ==
          IF ~r.ok THEN [ok |-> FALSE]
          ELSE LET has  == hasMembers(r.v)
               IN  IF has.thrown \/ ~has.v THEN [ok |-> FALSE]
                   ELSE LET op    == asString(member(r.v, "op").v)
                            topic == asString(member(r.v, "topic").v)
                            type  == asString(member(r.v, "type").v)
                            data  == msgData(r.v)
                        IN  IF op.thrown \/ topic.thrown \/ type.thrown
                               \/ data.thrown
                            THEN [ok |-> FALSE]
                            ELSE [ok |-> TRUE, op |-> op.v,
                                  topic |-> topic.v, type |-> type.v,
                                  data |-> data.v]
    IN  With(parse(bytes), read)

\* One string of CodecStrings is given to the writer; the bridge itself
\* is as constructed.
CodecInit ==
    /\ run = "running"
    /\ rxQueue = <<>>
    /\ lastArrival = "none"
    /\ received = FALSE
    /\ recvPending = receivePacket(0)
    /\ data_ = ""
    /\ sender_endpoint_ = DefaultEndpoint
    /\ published = <<>>
    /\ sendOps = <<>>
    /\ heard = FALSE
    /\ log = "none"
    /\ recvError = Success
    /\ steps = <<>>
    /\ codec \in { [stage |-> "string", data |-> d] : d \in CodecStrings }

\* listenerCallback's writer.write(json) for msg->data = codec.data.
CodecWrites ==
    /\ codec.stage = "string"
    /\ codec' = [stage |-> "written", data |-> codec.data,
                 bytes |-> write(listenerJson(codec.data))]
    /\ UNCHANGED <<run, rxQueue, lastArrival, received, recvPending, data_,
                   sender_endpoint_, published, sendOps, heard, log,
                   recvError, steps>>

\* handleReceive's reading of the bytes written.
CodecReads ==
    /\ codec.stage = "written"
    /\ codec' = [stage |-> "read", data |-> codec.data, bytes |-> codec.bytes,
                 envelope |-> decodeEnvelope(codec.bytes)]
    /\ UNCHANGED <<run, rxQueue, lastArrival, received, recvPending, data_,
                   sender_endpoint_, published, sendOps, heard, log,
                   recvError, steps>>

(***************************************************************************)
(* Specifications                                                          *)
(***************************************************************************)
\* UdpServer under an event loop that runs the bus callbacks and the
\* handlers of io_service_.
Next ==
    \/ DatagramArrives(Datagrams)
    \/ ReceiveCompletes
    \/ ReceiveFails
    \/ BusDelivers
    \/ SendPerforms
    \/ SendCompletes
    \/ Destructor

Spec == Init /\ [][Next]_vars

\* The receive path alone, fed every envelope shape.
RecvNext ==
    \/ DatagramArrives(ShapeDatagrams)
    \/ ReceiveCompletes
    \/ ReceiveFails
    \/ Destructor

RecvSpec == Init /\ [][RecvNext]_vars

\* The program as main() runs it: ros::spin() runs the bus callbacks, and
\* nothing runs io_service_, so no handler of a receive or a send is called.
MainNext ==
    \/ DatagramArrives(Datagrams \cup ShapeDatagrams)
    \/ BusDelivers
    \/ Destructor

MainSpec == Init /\ [][MainNext]_vars /\ WF_vars(BusDelivers)

\* Spec without socket errors on receive.
SocketOkNext ==
    \/ DatagramArrives(Datagrams)
    \/ ReceiveCompletes
    \/ BusDelivers
    \/ SendPerforms
    \/ SendCompletes
    \/ Destructor

SocketOkSpec == Init /\ [][SocketOkNext]_vars

\* The writer followed by the reader, on every string of CodecStrings.
CodecNext ==
    \/ CodecWrites
    \/ CodecReads

CodecSpec == CodecInit /\ [][CodecNext]_vars

(***************************************************************************)
(* Properties                                                              *)
(***************************************************************************)
\* The member key of the object j, when j is an object that has it.
field(j, key) ==
    IF j.t = "object" /\ key \in DOMAIN j.m THEN <<j.m[key]>> ELSE <<>>

\* The member is present and is the JSON string s.
IsString(f, s) == f # <<>> /\ f[1].t = "string" /\ f[1].s = s

\* The member is absent or is no JSON string.
NoString(f) == f = <<>> \/ f[1].t # "string"

\* b as JSON text: its value, when the whole of b is one JSON value.
document(b) ==
    LET r == readValue(b, 1)
    IN  IF r.ok /\ skipSpaces(b, r.i) > Len(b) THEN <<r.v>> ELSE <<>>

\* b is a JSON object in which op, topic, type or msg.data is absent or is
\* no JSON string.
MissingField(b) ==
    LET d == document(b)
    IN  /\ d # <<>>
        /\ d[1].t = "object"
        /\ \/ \E k \in {"op", "topic", "type"} : NoString(field(d[1], k))
           \/ field(d[1], "msg") = <<>>
           \/ NoString(field(field(d[1], "msg")[1], "data"))

\* A step in which a receive completes with a datagram and its handler
\* returns.
ReceiveStep ==
    /\ run = "running" /\ run' = "running"
    /\ rxQueue # <<>> /\ rxQueue' = Tail(rxQueue)

\* A step in which a message is delivered on /listener.
BusStep == heard' # heard

\* C1: handling a datagram never ends with an exception leaving
\* handleReceive: the process is never crashed.
C1_HandlingEndsNormally == run # "crashed"

\* C2: after every receive that completes without a socket error, whatever
\* the datagram's length, a receive is outstanding again when the handler
\* returns.
C2_ReceiveRearmed == [][ReceiveStep => recvPending' = 1]_vars

\* C3: a route-matching datagram with msg.data "hello" that has arrived at
\* the socket of the running bridge is eventually handled and published
\* on /chatter.
C3_MatchingDatagramPublished ==
    (run = "running" /\ rxQueue # <<>> /\ Head(rxQueue).bytes = Hello)
        ~> (published = <<"hello">> \/ run # "running")

\* C4: a publish on /chatter occurs only while handling a datagram whose op
\* is the string "publish", whose topic is the string "/chatter" and whose
\* type is the string "std_msgs/String".
C4_PublishOnlyOnExactRoute ==
    published # <<>> =>
        LET r == parseOf(data_)
        IN  /\ r.ok
            /\ IsString(field(r.v, "op"), "publish")
            /\ IsString(field(r.v, "topic"), "/chatter")
            /\ IsString(field(r.v, "type"), "std_msgs/String")

C4_Witness == published = <<"hello">> /\ data_ = Hello /\ recvPending = 1

\* C5: after handling a datagram that is a JSON object in which op, topic,
\* type or msg.data is absent or is no JSON string, nothing is published.
C5_MissingFieldNotPublished == MissingField(data_) => published = <<>>

\* C6: handling a datagram whose bytes are not valid JSON publishes
\* nothing, does not crash and leaves a receive outstanding.
C6_NotJsonDroppedAndRearmed ==
    [][(/\ run = "running" /\ run' # "destroyed"
        /\ rxQueue # <<>> /\ rxQueue' = Tail(rxQueue)
        /\ document(Head(rxQueue).bytes) = <<>>)
       => (published' = <<>> /\ run' = "running" /\ recvPending' = 1)]_vars

\* C7: a send started by a bus message targets the source of the latest
\* datagram that arrived at the socket (a datagram still on its way to the
\* outstanding receive aside).
C7_SendTargetsLatestArrival ==
    [][(/\ BusStep
        /\ lastArrival # "none"
        /\ ~(rxQueue # <<>> /\ recvPending > 0))
       => sendOps'[Len(sendOps')].dest = lastArrival]_vars

\* C8: a send started before any datagram was received transmits nothing,
\* and the bus message that starts it leaves the bridge running with its
\* receive outstanding.
C8_SendBeforeReceiveDropped ==
    [][/\ \A i \in 1..Len(sendOps') :
            ~sendOps'[i].peerSeen =>
                /\ sendOps'[i].sent = <<>>
                /\ sendOps'[i].stage = "done" => sendOps'[i].error
       /\ (BusStep /\ ~received) =>
            /\ run' = "running"
            /\ recvPending' = recvPending
            /\ rxQueue' = rxQueue]_vars

C8_Witness ==
    \E i \in 1..Len(sendOps) :
        /\ ~sendOps[i].peerSeen
        /\ sendOps[i].stage = "done"
        /\ sendOps[i].error
        /\ run = "running" /\ recvPending = 1

\* C9: each message d delivered on /listener starts exactly one send, of
\* bytes that read as a JSON object with op "publish", topic "/listener",
\* type "std_msgs/String" and msg.data = d.
C9_OneEnvelopePerBusMessage ==
    [][BusStep =>
        /\ Len(sendOps') = Len(sendOps) + 1
        /\ SubSeq(sendOps', 1, Len(sendOps)) = sendOps
        /\ LET o == sendOps'[Len(sendOps')]
               r == parseOf(o.buf)
           IN  /\ r.ok
               /\ DOMAIN r.v.m = {"op", "topic", "msg", "type"}
               /\ IsString(field(r.v, "op"), "publish")
               /\ IsString(field(r.v, "topic"), "/listener")
               /\ IsString(field(r.v, "type"), "std_msgs/String")
               /\ field(r.v, "msg") = <<JObj([data |-> JStr(o.for)])>>]_vars

C9_Witness ==
    \E i \in 1..Len(sendOps) :
        /\ sendOps[i].for = "a\"b\\c\n"
        /\ sendOps[i].dest = PeerA
        /\ sendOps[i].sent = <<sendOps[i].buf>>

\* C10: the handler of a send that failed changes nothing but the log: the
\* receive stays outstanding, the bridge runs, the peer endpoint and the
\* waiting datagrams and sends are as before.
C10_SendErrorOnlyLogged ==
    [][(/\ run = "running" /\ run' = "running"
        /\ \E i \in 1..Len(sendOps) :
              /\ sendOps[i].stage = "done"
              /\ sendOps[i].error
              /\ sendOps' = [k \in 1..(Len(sendOps) - 1) |->
                               IF k < i THEN sendOps[k] ELSE sendOps[k + 1]])
       => /\ log' = "Error in sending UDP packet"
          /\ UNCHANGED <<rxQueue, recvPending, data_, sender_endpoint_,
                         published>>]_vars

C10_Witness ==
    /\ log = "Error in sending UDP packet"
    /\ run = "running"
    /\ recvPending = 1
    /\ sendOps = <<>>

\* C11: when the destructor closes the socket, the outstanding receive
\* completes with operation_aborted and no receive is outstanding
\* afterwards; from then on no handleReceive runs: no receive is issued and
\* nothing is published.
C11_CloseEndsReceiveLoop ==
    [][/\ (run = "running" /\ run' = "destroyed") =>
            /\ recvPending' = 0
            /\ recvPending > 0 => recvError' = OperationAborted
            /\ UNCHANGED <<published, steps, data_>>
       /\ run = "destroyed" =>
            UNCHANGED <<run, recvPending, recvError, published, steps,
                        data_>>]_vars

C11_Witness ==
    /\ run = "destroyed"
    /\ recvError = OperationAborted
    /\ recvPending = 0
    /\ published = <<"hello">>

\* C12: when a receive completes with a recoverable socket error while the
\* socket is open, a receive is outstanding again after handleReceive has
\* returned.
C12_RecoverableErrorRearms ==
    [][(/\ run = "running" /\ run' = "running"
        /\ recvError' # recvError
        /\ recvError' \in RecoverableErrors)
       => recvPending' = 1]_vars

\* C13: a datagram the bridge receives was addressed to the configured ip
\* and port.
C13_ReceivedOnlyAtConfiguredAddress ==
    [][(/\ run = "running" /\ run' # "destroyed"
        /\ rxQueue # <<>> /\ rxQueue' = Tail(rxQueue))
       => Head(rxQueue).to = [address |-> ip, port |-> port]]_vars

\* C14: reading the bytes written for the string d gives an envelope with
\* op "publish", the topic and type that were written, and data d, for
\* every string d of CodecStrings: the empty string and strings with
\* quotes, backslashes and control characters among them.
C14_RoundTrip ==
    codec.stage = "read" =>
        codec.envelope = [ok |-> TRUE, op |-> "publish", topic |-> "/listener",
                          type |-> "std_msgs/String", data |-> codec.data]

C14_Witness ==
    /\ codec.stage = "read"
    /\ codec.data = "\"\n"
    /\ codec.envelope.ok
    /\ codec.envelope.data = "\"\n"

\* C15: at most one receive is outstanding on socket_ in every reachable
\* state; no step adds a receive to those outstanding (handleReceive issues
\* one for the one that completed), and a bus callback or a step of a send
\* leaves the outstanding receive as it is.
C15_OneReceiveOutstanding ==
    /\ [](recvPending \in {0, 1})
    /\ [][/\ recvPending' <= recvPending
          /\ (run' = "running" /\ (BusStep \/ sendOps' # sendOps))
                => recvPending' = recvPending]_vars

C15_Witness ==
    /\ received
    /\ recvPending = 1
    /\ rxQueue # <<>>
    /\ \E i \in 1..Len(sendOps) : sendOps[i].stage = "done"

\* The place of each step in the order decode, route, publish, re-arm.
StepRank == [decode |-> 1, route |-> 2, publish |-> 3, rearm |-> 4]

\* C16: the steps of the latest handleReceive are in the order decode,
\* route check, publish, re-arm, and no receive is outstanding on socket_
\* (so none can write data_) at any step before the re-arm.
C16_DecodeRoutePublishRearm ==
    /\ \A i, j \in 1..Len(steps) :
          i < j => StepRank[steps[i].step] < StepRank[steps[j].step]
    /\ \A i \in 1..Len(steps) :
          steps[i].step # "rearm" => steps[i].pending = 0

C16_Witness ==
    /\ data_ = Hello
    /\ published = <<"hello">>
    /\ steps = <<[step |-> "decode", pending |-> 0],
                 [step |-> "route", pending |-> 0],
                 [step |-> "publish", pending |-> 0],
                 [step |-> "rearm", pending |-> 0]>>
    /\ recvPending = 1

\* C17: sender_endpoint_ changes only in the step in which a receive
\* completes with a datagram, and then to that datagram's source whatever
\* the handler decodes, routes or publishes; a bus callback (with its
\* sendPacket) and every step of a send leave it unchanged.
C17_PeerWrittenOnlyByReceive ==
    [][/\ sender_endpoint_' # sender_endpoint_ =>
            /\ recvPending > 0
            /\ rxQueue # <<>> /\ rxQueue' = Tail(rxQueue)
       /\ (run = "running" /\ run' # "destroyed"
           /\ rxQueue # <<>> /\ rxQueue' = Tail(rxQueue))
            => sender_endpoint_' = Head(rxQueue).from
       /\ (BusStep \/ sendOps' # sendOps) =>
            sender_endpoint_' = sender_endpoint_]_vars

C17_Witness ==
    /\ sender_endpoint_ = PeerA
    /\ published = <<"hello">>
    /\ \E i \in 1..Len(sendOps) :
          /\ sendOps[i].dest = PeerA
          /\ sendOps[i].stage = "done"
          /\ sendOps[i].sent # <<>>

\* C18: the bytes handleReceive hands to the parser are the complete
\* payload of the datagram whose receive completed, whatever its size.
C18_WholeDatagramDecoded ==
    [][(/\ run = "running" /\ run' # "destroyed"
        /\ rxQueue # <<>> /\ rxQueue' = Tail(rxQueue))
       => data_' = Head(rxQueue).bytes]_vars

\* C19: the bytes a send transmits are the bytes of the buffer that was
\* handed to sendPacket: the buffer is intact when the send is performed,
\* also when that is after listenerCallback has returned.
C19_SendBufferIntact ==
    \A i \in 1..Len(sendOps) :
        sendOps[i].sent # <<>> => sendOps[i].sent[1] = sendOps[i].buf
====
